---- MODULE Spec2Model ----
(***************************************************************************)
(* Discrete surfaces with elastic metrics                                  *)
(* (geomstats/geometry/discrete_surfaces.py): the geometric primitives of  *)
(* DiscreteSurfaces, the six-term ElasticMetric.inner_product and the      *)
(* geodesic initial-value solver DiscreteSurfacesExpSolver.                *)
(*                                                                         *)
(* Arithmetic.  The code computes in IEEE floating point; the model        *)
(* computes in exact rational arithmetic extended with the three           *)
(* non-finite IEEE values.  A scalar is a pair <<n, d>>: d > 0 is the      *)
(* reduced fraction n/d, <<1,0>> is +inf, <<-1,0>> is -inf, <<0,0>> is NaN.*)
(* Square roots are taken of perfect squares only: the surfaces the model  *)
(* draws are those whose edge lengths and metric determinants are          *)
(* rational, so that every value the code computes is represented exactly. *)
(* An array is a tuple, indexed from 1; vertex indices stored in `faces`   *)
(* are the code's 0-based indices.                                         *)
(***************************************************************************)
EXTENDS Integers, Sequences, FiniteSets, TLC

\* ------------------------------------------------------------ scalars

Abs(n) == IF n < 0 THEN -n ELSE n

Sgn(n) == IF n < 0 THEN -1 ELSE IF n > 0 THEN 1 ELSE 0

RECURSIVE Gcd(_, _)
Gcd(a, b) == IF b = 0 THEN a ELSE Gcd(b, a % b)

\* the reduced fraction n/d, d > 0
Frac(n, d) == LET g == Gcd(Abs(n), d) IN <<n \div g, d \div g>>

Rat(n) == <<n, 1>>

Zero == <<0, 1>>

NaN == <<0, 0>>

IsFinite(x) == x[2] # 0

IsNaN(x) == x = NaN

RNeg(x) == <<-x[1], x[2]>>

RAdd(x, y) ==
    IF x[2] # 0 /\ y[2] # 0
    THEN LET g == Gcd(x[2], y[2])
         IN Frac(x[1] * (y[2] \div g) + y[1] * (x[2] \div g), (x[2] \div g) * y[2])
    ELSE IF x = NaN \/ y = NaN THEN NaN
    ELSE IF x[2] # 0 THEN y
    ELSE IF y[2] # 0 THEN x
    ELSE IF x = y THEN x ELSE NaN

RSub(x, y) == RAdd(x, RNeg(y))

RMul(x, y) ==
    IF x[2] # 0 /\ y[2] # 0
    THEN LET g == Gcd(Abs(x[1]), y[2])
             h == Gcd(Abs(y[1]), x[2])
         IN Frac((x[1] \div g) * (y[1] \div h), (x[2] \div h) * (y[2] \div g))
    ELSE IF x = NaN \/ y = NaN \/ x[1] = 0 \/ y[1] = 0 THEN NaN
    ELSE <<Sgn(x[1]) * Sgn(y[1]), 0>>

\* IEEE division: x/0 is +-inf for x # 0 and NaN for x = 0 (numpy warns, never raises)
RDiv(x, y) ==
    IF x = NaN \/ y = NaN THEN NaN
    ELSE IF y[2] = 0 THEN (IF x[2] = 0 THEN NaN ELSE Zero)
    ELSE IF y[1] = 0 THEN (IF x[1] = 0 THEN NaN ELSE <<Sgn(x[1]), 0>>)
    ELSE IF x[2] = 0 THEN <<Sgn(x[1]) * Sgn(y[1]), 0>>
    ELSE RMul(x, <<Sgn(y[1]) * y[2], Abs(y[1])>>)

\* x < y on finite values, comparing integer parts first
RLess(x, y) ==
    LET fx == x[1] \div x[2]
        fy == y[1] \div y[2]
    IN IF fx # fy THEN fx < fy
       ELSE (x[1] - fx * x[2]) * y[2] < (y[1] - fy * y[2]) * x[2]

\* no floor at all
ClipMinNone(x, m) == x

\* ndarray.clip(min=m), the elementwise maximum with m: NaN and +inf are
\* kept, -inf and every finite value below m become m
ClipMin(x, m) ==
    IF IsFinite(x)
    THEN (IF RLess(x, m) THEN m ELSE x)
    ELSE (IF x = <<-1, 0>> THEN m ELSE x)

ISqrt(n) == CHOOSE r \in 0..n : r * r = n

IsSquare(n) == n >= 0 /\ \E r \in 0..n : r * r = n

\* gs.sqrt of a non-negative rational whose numerator and denominator are squares
RSqrt(x) == <<ISqrt(x[1]), ISqrt(x[2])>>

\* an array built elementwise, evaluated once into a tuple
Arr(f) == f \o <<>>

RECURSIVE SumSeq(_)
SumSeq(s) == IF s = <<>> THEN Zero ELSE RAdd(s[1], SumSeq(Tail(s)))

\* ------------------------------------------------- vectors and matrices

VAdd(a, b) == Arr([i \in 1..Len(a) |-> RAdd(a[i], b[i])])

VSub(a, b) == Arr([i \in 1..Len(a) |-> RSub(a[i], b[i])])

VScale(c, a) == Arr([i \in 1..Len(a) |-> RMul(c, a[i])])

Dot(a, b) == SumSeq(Arr([i \in 1..Len(a) |-> RMul(a[i], b[i])]))

\* gs.cross on 3-vectors
Cross(a, b) ==
    << RSub(RMul(a[2], b[3]), RMul(a[3], b[2])),
       RSub(RMul(a[3], b[1]), RMul(a[1], b[3])),
       RSub(RMul(a[1], b[2]), RMul(a[2], b[1])) >>

\* gs.linalg.norm(., axis=-1)
VNorm(a) == RSqrt(Dot(a, a))

\* Matrices.transpose on the last two axes
Transpose(m) == Arr([j \in 1..Len(m[1]) |-> Arr([i \in 1..Len(m) |-> m[i][j]])])

\* gs.matmul on the last two axes
MatMul(a, b) ==
    Arr([i \in 1..Len(a) |-> Arr([j \in 1..Len(b[1]) |->
        SumSeq(Arr([k \in 1..Len(b) |-> RMul(a[i][k], b[k][j])]))])])

MatSub(a, b) == Arr([i \in 1..Len(a) |-> VSub(a[i], b[i])])

\* gs.einsum("...bii->...b", .) for one face
Trace(m) == SumSeq(Arr([i \in 1..Len(m) |-> m[i][i]]))

\* gs.linalg.det of a 2x2 matrix
Det2(m) == RSub(RMul(m[1][1], m[2][2]), RMul(m[1][2], m[2][1]))

\* ------------------------------------------------------ DiscreteSurfaces

RECURSIVE MaxIndex(_)
MaxIndex(faces) ==
    IF faces = <<>> THEN 0
    ELSE LET m == MaxIndex(Tail(faces))
             f == faces[1]
             a == IF f[1] > f[2] THEN f[1] ELSE f[2]
             b == IF a > f[3] THEN a ELSE f[3]
         IN IF b > m THEN b ELSE m

\* DiscreteSurfaces.__init__: n_vertices = int(gs.amax(faces) + 1)
NVertices(faces) == MaxIndex(faces) + 1

\* _vertices: the 3D coordinates of the k-th vertex of every face
Vertices(faces, point) ==
    Arr([k \in 1..3 |-> Arr([f \in 1..Len(faces) |-> point[faces[f][k] + 1]])])

\* the floor of the Heron radicand, 1e-6
HeronFloor == <<1, 1000000>>

Half == <<1, 2>>

\* the Heron radicand without the clip
HeronRadicandUnclipped(l12, l02, l01) ==
    LET half_perimeter == RMul(Half, RAdd(RAdd(l12, l02), l01))
    IN RMul(RMul(RMul(half_perimeter,
                      RSub(half_perimeter, l12)),
                 RSub(half_perimeter, l02)),
            RSub(half_perimeter, l01))

\* the clipped Heron radicand of a triangle with edge lengths l12, l02, l01
HeronRadicand(l12, l02, l01) ==
    LET half_perimeter == RMul(Half, RAdd(RAdd(l12, l02), l01))
    IN ClipMin(RMul(RMul(RMul(half_perimeter,
                              RSub(half_perimeter, l12)),
                         RSub(half_perimeter, l02)),
                    RSub(half_perimeter, l01)),
               HeronFloor)

\* _triangle_areas: Heron's formula per face
TriangleAreas(faces, point) ==
    LET v == Vertices(faces, point)
    IN Arr([f \in 1..Len(faces) |->
          RSqrt(HeronRadicand(VNorm(VSub(v[2][f], v[3][f])),
                              VNorm(VSub(v[1][f], v[3][f])),
                              VNorm(VSub(v[1][f], v[2][f]))))])

\* gs.reshape(faces, (-1,)): row-major, the three indices of face 0 first
IdVertices(faces) ==
    Arr([i \in 1..(3 * Len(faces)) |-> faces[((i - 1) \div 3) + 1][((i - 1) % 3) + 1]])

\* gs.reshape(gs.broadcast_to(gs.expand_dims(area, -2), (3, n_faces)), (-1,)):
\* row-major over three copies of the whole area vector
ScatterSrc(area) ==
    Arr([i \in 1..(3 * Len(area)) |-> area[((i - 1) % Len(area)) + 1]])

\* gs.scatter_add(input, dim=-1, index, src): input[index[i]] += src[i]
ScatterAdd(input, index, src) ==
    Arr([v \in 1..Len(input) |->
        RAdd(input[v],
             SumSeq(Arr([i \in 1..Len(index) |->
                        IF index[i] = v - 1 THEN src[i] ELSE Zero])))])

\* vertex_areas with the textbook factor 1/3
VertexAreasOneThird(faces, point) ==
    LET n_vertices == Len(point)
        area == TriangleAreas(faces, point)
        incident_areas ==
            ScatterAdd(Arr([v \in 1..n_vertices |-> Zero]), IdVertices(faces),
                       ScatterSrc(area))
    IN Arr([v \in 1..n_vertices |-> RDiv(incident_areas[v], Rat(3))])

\* vertex_areas
VertexAreas(faces, point) ==
    LET n_vertices == Len(point)
        area == TriangleAreas(faces, point)
        id_vertices == IdVertices(faces)
        val == ScatterSrc(area)
        incident_areas == ScatterAdd(Arr([v \in 1..n_vertices |-> Zero]), id_vertices, val)
    IN Arr([v \in 1..n_vertices |-> RDiv(RMul(Rat(2), incident_areas[v]), Rat(3))])

\* normals without the factor 0.5
NormalsUnscaled(faces, point) ==
    LET v == Vertices(faces, point)
    IN Arr([f \in 1..Len(faces) |->
          Cross(VSub(v[2][f], v[1][f]), VSub(v[3][f], v[1][f]))])

\* normals: 0.5 * cross(v1 - v0, v2 - v0)
Normals(faces, point) ==
    LET v == Vertices(faces, point)
    IN Arr([f \in 1..Len(faces) |->
          VScale(Half, Cross(VSub(v[2][f], v[1][f]), VSub(v[3][f], v[1][f])))])

\* surface_one_forms: stack([v1 - v0, v2 - v0], axis=-2)
SurfaceOneForms(faces, point) ==
    LET v == Vertices(faces, point)
    IN Arr([f \in 1..Len(faces) |-> <<VSub(v[2][f], v[1][f]), VSub(v[3][f], v[1][f])>>])

\* the one-forms multiplied without the transpose (on their first two columns)
SurfaceMetricMatricesNoTranspose(one_forms) ==
    Arr([f \in 1..Len(one_forms) |->
        LET square == << SubSeq(one_forms[f][1], 1, 2), SubSeq(one_forms[f][2], 1, 2) >>
        IN MatMul(square, square)])

\* _surface_metric_matrices_from_one_forms
SurfaceMetricMatricesFromOneForms(one_forms) ==
    Arr([f \in 1..Len(one_forms) |-> MatMul(one_forms[f], Transpose(one_forms[f]))])

\* surface_metric_matrices
SurfaceMetricMatrices(faces, point) ==
    SurfaceMetricMatricesFromOneForms(SurfaceOneForms(faces, point))

\* face_areas without the square root
FaceAreasNoSqrt(faces, point) ==
    LET surface_metrics_bp == SurfaceMetricMatrices(faces, point)
    IN Arr([f \in 1..Len(faces) |-> Det2(surface_metrics_bp[f])])

\* face_areas: sqrt(det(surface_metric_matrices))
FaceAreas(faces, point) ==
    LET surface_metrics_bp == SurfaceMetricMatrices(faces, point)
    IN Arr([f \in 1..Len(faces) |-> RSqrt(Det2(surface_metrics_bp[f]))])

\* laplacian with the area taken without the floor on the radicand
LaplacianUnfloored(faces, point) ==
    LET n_faces == Len(faces)
        v == Vertices(faces, point)
        len_edge_12 == Arr([f \in 1..n_faces |-> VNorm(VSub(v[2][f], v[3][f]))])
        len_edge_02 == Arr([f \in 1..n_faces |-> VNorm(VSub(v[1][f], v[3][f]))])
        len_edge_01 == Arr([f \in 1..n_faces |-> VNorm(VSub(v[1][f], v[2][f]))])
        area == Arr([f \in 1..n_faces |->
                    RSqrt(HeronRadicandUnclipped(len_edge_12[f], len_edge_02[f], len_edge_01[f]))])
        sq12 == Arr([f \in 1..n_faces |-> RMul(len_edge_12[f], len_edge_12[f])])
        sq02 == Arr([f \in 1..n_faces |-> RMul(len_edge_02[f], len_edge_02[f])])
        sq01 == Arr([f \in 1..n_faces |-> RMul(len_edge_01[f], len_edge_01[f])])
        cot == Arr([f \in 1..n_faces |->
                  << RDiv(RDiv(RSub(RAdd(sq02[f], sq01[f]), sq12[f]), area[f]), Rat(2)),
                     RDiv(RDiv(RSub(RAdd(sq12[f], sq01[f]), sq02[f]), area[f]), Rat(2)),
                     RDiv(RDiv(RSub(RAdd(sq12[f], sq02[f]), sq01[f]), area[f]), Rat(2)) >>])
        perm120 == <<2, 3, 1>>
        perm201 == <<3, 1, 2>>
    IN [ n_vertices |-> Len(point),
         n_faces |-> n_faces,
         area |-> area,
         id_vertices |->
            << Arr([i \in 1..(3 * n_faces) |->
                   faces[((i - 1) \div 3) + 1][perm120[((i - 1) % 3) + 1]]]),
               Arr([i \in 1..(3 * n_faces) |->
                   faces[((i - 1) \div 3) + 1][perm201[((i - 1) % 3) + 1]]]) >>,
         cot_flatten |->
            Arr([i \in 1..(3 * n_faces) |-> cot[((i - 1) \div 3) + 1][((i - 1) % 3) + 1]]) ]

\* laplacian(point): what the returned closure captures
Laplacian(faces, point) ==
    LET n_faces == Len(faces)
        v == Vertices(faces, point)
        len_edge_12 == Arr([f \in 1..n_faces |-> VNorm(VSub(v[2][f], v[3][f]))])
        len_edge_02 == Arr([f \in 1..n_faces |-> VNorm(VSub(v[1][f], v[3][f]))])
        len_edge_01 == Arr([f \in 1..n_faces |-> VNorm(VSub(v[1][f], v[2][f]))])
        area == Arr([f \in 1..n_faces |->
                    RSqrt(HeronRadicand(len_edge_12[f], len_edge_02[f], len_edge_01[f]))])
        sq12 == Arr([f \in 1..n_faces |-> RMul(len_edge_12[f], len_edge_12[f])])
        sq02 == Arr([f \in 1..n_faces |-> RMul(len_edge_02[f], len_edge_02[f])])
        sq01 == Arr([f \in 1..n_faces |-> RMul(len_edge_01[f], len_edge_01[f])])
        cot == Arr([f \in 1..n_faces |->
                  << RDiv(RDiv(RSub(RAdd(sq02[f], sq01[f]), sq12[f]), area[f]), Rat(2)),
                     RDiv(RDiv(RSub(RAdd(sq12[f], sq01[f]), sq02[f]), area[f]), Rat(2)),
                     RDiv(RDiv(RSub(RAdd(sq12[f], sq02[f]), sq01[f]), area[f]), Rat(2)) >>])
        perm120 == <<2, 3, 1>>
        perm201 == <<3, 1, 2>>
    IN [ n_vertices |-> Len(point),
         n_faces |-> n_faces,
         area |-> area,
         id_vertices |->
            << Arr([i \in 1..(3 * n_faces) |->
                   faces[((i - 1) \div 3) + 1][perm120[((i - 1) % 3) + 1]]]),
               Arr([i \in 1..(3 * n_faces) |->
                   faces[((i - 1) \div 3) + 1][perm201[((i - 1) % 3) + 1]]]) >>,
         cot_flatten |->
            Arr([i \in 1..(3 * n_faces) |-> cot[((i - 1) \div 3) + 1][((i - 1) % 3) + 1]]) ]

\* the closure _laplacian with the two gathered fields added, not subtracted
LaplacianApplySum(lap, tangent_vec) ==
    LET n == 3 * lap.n_faces
        tangent_vec_diff ==
            Arr([i \in 1..n |-> VAdd(tangent_vec[lap.id_vertices[1][i] + 1],
                                 tangent_vec[lap.id_vertices[2][i] + 1])])
        values == Arr([i \in 1..n |-> VScale(lap.cot_flatten[i], tangent_vec_diff[i])])
        column(d) ==
            ScatterAdd(Arr([v \in 1..lap.n_vertices |-> Zero]),
                       lap.id_vertices[2],
                       Arr([i \in 1..n |-> values[i][d]]))
        c1 == column(1)
        c2 == column(2)
        c3 == column(3)
    IN Arr([v \in 1..lap.n_vertices |-> <<c1[v], c2[v], c3[v]>>])

\* laplacian(point)(tangent_vec): the closure _laplacian
LaplacianApply(lap, tangent_vec) ==
    LET n == 3 * lap.n_faces
        tangent_vec_diff ==
            Arr([i \in 1..n |-> VSub(tangent_vec[lap.id_vertices[1][i] + 1],
                                 tangent_vec[lap.id_vertices[2][i] + 1])])
        values == Arr([i \in 1..n |-> VScale(lap.cot_flatten[i], tangent_vec_diff[i])])
        column(d) ==
            ScatterAdd(Arr([v \in 1..lap.n_vertices |-> Zero]),
                       lap.id_vertices[2],
                       Arr([i \in 1..n |-> values[i][d]]))
        c1 == column(1)
        c2 == column(2)
        c3 == column(3)
    IN Arr([v \in 1..lap.n_vertices |-> <<c1[v], c2[v], c3[v]>>])

\* --------------------------------------------------------- ElasticMetric

\* gs.linalg.inv of a non-singular 2x2 matrix
Inv2(m) ==
    LET det == Det2(m)
    IN << <<RDiv(m[2][2], det), RDiv(RNeg(m[1][2]), det)>>,
          <<RDiv(RNeg(m[2][1]), det), RDiv(m[1][1], det)>> >>

\* gs.linalg.inv raises (LinAlgError) on an exactly singular matrix
IsSingular(m) == Det2(m) = Zero

\* _inner_product_a0 without the vertex-area weighting
InnerProductA0Unweighted(w, tangent_vec_a, tangent_vec_b, vertex_areas_bp) ==
    RMul(Rat(w.a0),
         SumSeq(Arr([v \in 1..Len(vertex_areas_bp) |->
                    Dot(tangent_vec_a[v], tangent_vec_b[v])])))

\* _inner_product_a0
InnerProductA0(w, tangent_vec_a, tangent_vec_b, vertex_areas_bp) ==
    RMul(Rat(w.a0),
         SumSeq(Arr([v \in 1..Len(vertex_areas_bp) |->
                    RMul(vertex_areas_bp[v], Dot(tangent_vec_a[v], tangent_vec_b[v]))])))

\* _inner_product_a1 with the first differential used twice
InnerProductA1SameArgument(w, ginvdga, ginvdgb, areas_bp) ==
    RMul(Rat(w.a1),
         SumSeq(Arr([f \in 1..Len(areas_bp) |->
                    RMul(Trace(MatMul(ginvdga[f], ginvdga[f])), areas_bp[f])])))

\* _inner_product_a1
InnerProductA1(w, ginvdga, ginvdgb, areas_bp) ==
    RMul(Rat(w.a1),
         SumSeq(Arr([f \in 1..Len(areas_bp) |->
                    RMul(Trace(MatMul(ginvdga[f], ginvdgb[f])), areas_bp[f])])))

\* _inner_product_b1
InnerProductB1(w, ginvdga, ginvdgb, areas_bp) ==
    RMul(Rat(w.b1),
         SumSeq(Arr([f \in 1..Len(areas_bp) |->
                    RMul(RMul(Trace(ginvdga[f]), Trace(ginvdgb[f])), areas_bp[f])])))

\* _inner_product_c1
InnerProductC1(w, faces, point_a, point_b, normals_bp, areas_bp) ==
    LET na == Normals(faces, point_a)
        nb == Normals(faces, point_b)
        dna == Arr([f \in 1..Len(faces) |-> VSub(na[f], normals_bp[f])])
        dnb == Arr([f \in 1..Len(faces) |-> VSub(nb[f], normals_bp[f])])
    IN RMul(Rat(w.c1),
            SumSeq(Arr([f \in 1..Len(faces) |-> RMul(Dot(dna[f], dnb[f]), areas_bp[f])])))

\* _inner_product_d1
InnerProductD1(w, one_forms_a, one_forms_b, one_forms_bp, areas_bp, inv_surface_metrics_bp) ==
    LET x0(one_forms, f) ==
            LET one_forms_bp_t == Transpose(one_forms_bp[f])
                x == MatSub(Transpose(one_forms[f]), one_forms_bp_t)
            IN MatMul(MatMul(one_forms_bp_t, inv_surface_metrics_bp[f]),
                      MatSub(MatMul(Transpose(x), one_forms_bp_t),
                             MatMul(one_forms_bp[f], x)))
    IN RMul(Rat(w.d1),
            SumSeq(Arr([f \in 1..Len(areas_bp) |->
                RMul(Trace(MatMul(x0(one_forms_a, f),
                                  MatMul(inv_surface_metrics_bp[f],
                                         Transpose(x0(one_forms_b, f))))),
                     areas_bp[f])])))

\* _inner_product_a2 leaving out the vertices of area zero
InnerProductA2Guarded(w, faces, tangent_vec_a, tangent_vec_b, base_point, vertex_areas_bp) ==
    LET laplacian_at_base_point == Laplacian(faces, base_point)
        la == LaplacianApply(laplacian_at_base_point, tangent_vec_a)
        lb == LaplacianApply(laplacian_at_base_point, tangent_vec_b)
    IN RMul(Rat(w.a2),
            SumSeq(Arr([v \in 1..Len(vertex_areas_bp) |->
                       IF vertex_areas_bp[v] = Zero THEN Zero
                       ELSE RDiv(Dot(la[v], lb[v]), vertex_areas_bp[v])])))

\* _inner_product_a2
InnerProductA2(w, faces, tangent_vec_a, tangent_vec_b, base_point, vertex_areas_bp) ==
    LET laplacian_at_base_point == Laplacian(faces, base_point)
        la == LaplacianApply(laplacian_at_base_point, tangent_vec_a)
        lb == LaplacianApply(laplacian_at_base_point, tangent_vec_b)
    IN RMul(Rat(w.a2),
            SumSeq(Arr([v \in 1..Len(vertex_areas_bp) |->
                       RDiv(Dot(la[v], lb[v]), vertex_areas_bp[v])])))

\* vertex areas computed whatever the weights
NeedsVertexAreasAlways(w) == TRUE

\* the guards of inner_product, in the order of the code
NeedsVertexAreas(w) == w.a0 > 0 \/ w.a2 > 0

NeedsFirstOrder(w) == w.a1 > 0 \/ w.b1 > 0 \/ w.c1 > 0 \/ w.b1 > 0

NeedsInverse(w) == w.d1 > 0 \/ w.b1 > 0 \/ w.a1 > 0

NeedsMetricDifferences(w) == w.b1 > 0 \/ w.a1 > 0

PointPlus(base_point, tangent_vec) ==
    Arr([v \in 1..Len(base_point) |-> VAdd(base_point[v], tangent_vec[v])])

\* the helpers inner_product calls, in the order of the calls, with the inverse
\* and the one-forms at point_a, point_b computed again for each term using them
InnerProductTracePerTerm(w, raised) ==
    LET first == NeedsFirstOrder(w)
        inverse == first /\ NeedsInverse(w)
        differences == inverse /\ ~raised /\ NeedsMetricDifferences(w)
        shared == IF raised THEN <<"inv">>
                  ELSE <<"inv", "surface_one_forms_a", "surface_one_forms_b">>
    IN
    (IF NeedsVertexAreas(w) THEN <<"vertex_areas">> ELSE <<>>)
    \o (IF NeedsVertexAreas(w) /\ w.a0 > 0 THEN <<"_inner_product_a0">> ELSE <<>>)
    \o (IF NeedsVertexAreas(w) /\ w.a2 > 0
        THEN <<"_inner_product_a2", "laplacian", "_laplacian", "_laplacian",
               "divide_by_vertex_areas">>
        ELSE <<>>)
    \o (IF first
        THEN <<"surface_one_forms_bp", "_surface_metric_matrices_from_one_forms">>
        ELSE <<>>)
    \o (IF first /\ w.c1 > 0 THEN <<"normals_bp", "_inner_product_c1">> ELSE <<>>)
    \o (IF inverse /\ w.d1 > 0 THEN shared ELSE <<>>)
    \o (IF inverse /\ ~raised /\ w.d1 > 0 THEN <<"_inner_product_d1">> ELSE <<>>)
    \o (IF inverse /\ w.a1 > 0 THEN shared ELSE <<>>)
    \o (IF differences /\ w.a1 > 0 THEN <<"_inner_product_a1">> ELSE <<>>)
    \o (IF inverse /\ w.b1 > 0 THEN shared ELSE <<>>)
    \o (IF differences /\ w.b1 > 0 THEN <<"_inner_product_b1">> ELSE <<>>)

\* the helpers inner_product calls, in the order of the calls; raised tells
\* that gs.linalg.inv raised
InnerProductTrace(w, raised) ==
    LET first == NeedsFirstOrder(w)
        inverse == first /\ NeedsInverse(w)
        differences == inverse /\ ~raised /\ NeedsMetricDifferences(w)
    IN
    (IF NeedsVertexAreas(w) THEN <<"vertex_areas">> ELSE <<>>)
    \o (IF NeedsVertexAreas(w) /\ w.a0 > 0 THEN <<"_inner_product_a0">> ELSE <<>>)
    \o (IF NeedsVertexAreas(w) /\ w.a2 > 0
        THEN <<"_inner_product_a2", "laplacian", "_laplacian", "_laplacian",
               "divide_by_vertex_areas">>
        ELSE <<>>)
    \o (IF first
        THEN <<"surface_one_forms_bp", "_surface_metric_matrices_from_one_forms">>
        ELSE <<>>)
    \o (IF first /\ w.c1 > 0
        THEN <<"normals_bp", "_inner_product_c1">>
        ELSE <<>>)
    \o (IF inverse THEN <<"inv">> ELSE <<>>)
    \o (IF inverse /\ ~raised
        THEN <<"surface_one_forms_a", "surface_one_forms_b">>
        ELSE <<>>)
    \o (IF inverse /\ ~raised /\ w.d1 > 0 THEN <<"_inner_product_d1">> ELSE <<>>)
    \o (IF differences /\ w.a1 > 0 THEN <<"_inner_product_a1">> ELSE <<>>)
    \o (IF differences /\ w.b1 > 0 THEN <<"_inner_product_b1">> ELSE <<>>)

\* inner_product: the six terms, the value returned, whether gs.linalg.inv
\* raised, and the helpers invoked, in order
InnerProduct(w, faces, tangent_vec_a, tangent_vec_b, base_point) ==
    LET n_faces == Len(faces)
        vertex_areas_bp == VertexAreas(faces, base_point)
        one_forms_bp == SurfaceOneForms(faces, base_point)
        surface_metrics_bp == SurfaceMetricMatricesFromOneForms(one_forms_bp)
        areas_bp == Arr([f \in 1..n_faces |-> RSqrt(Det2(surface_metrics_bp[f]))])
        point_a == PointPlus(base_point, tangent_vec_a)
        point_b == PointPlus(base_point, tangent_vec_b)
        normals_bp == Normals(faces, base_point)
        ginv_bp == Arr([f \in 1..n_faces |-> Inv2(surface_metrics_bp[f])])
        one_forms_a == SurfaceOneForms(faces, point_a)
        one_forms_b == SurfaceOneForms(faces, point_b)
        dga == Arr([f \in 1..n_faces |->
                   MatSub(MatMul(one_forms_a[f], Transpose(one_forms_a[f])),
                          surface_metrics_bp[f])])
        dgb == Arr([f \in 1..n_faces |->
                   MatSub(MatMul(one_forms_b[f], Transpose(one_forms_b[f])),
                          surface_metrics_bp[f])])
        ginvdga == Arr([f \in 1..n_faces |-> MatMul(ginv_bp[f], dga[f])])
        ginvdgb == Arr([f \in 1..n_faces |-> MatMul(ginv_bp[f], dgb[f])])
        first == NeedsFirstOrder(w)
        inverse == first /\ NeedsInverse(w)
        raised == inverse /\ \E f \in 1..n_faces : IsSingular(surface_metrics_bp[f])
        differences == inverse /\ ~raised /\ NeedsMetricDifferences(w)
        inner_prod_a0 ==
            IF NeedsVertexAreas(w) /\ w.a0 > 0
            THEN InnerProductA0(w, tangent_vec_a, tangent_vec_b, vertex_areas_bp)
            ELSE Zero
        inner_prod_a2 ==
            IF NeedsVertexAreas(w) /\ w.a2 > 0
            THEN InnerProductA2(w, faces, tangent_vec_a, tangent_vec_b,
                                base_point, vertex_areas_bp)
            ELSE Zero
        inner_prod_c1 ==
            IF first /\ w.c1 > 0
            THEN InnerProductC1(w, faces, point_a, point_b, normals_bp, areas_bp)
            ELSE Zero
        inner_prod_d1 ==
            IF inverse /\ ~raised /\ w.d1 > 0
            THEN InnerProductD1(w, one_forms_a, one_forms_b, one_forms_bp,
                                areas_bp, ginv_bp)
            ELSE Zero
        inner_prod_a1 ==
            IF differences /\ w.a1 > 0
            THEN InnerProductA1(w, ginvdga, ginvdgb, areas_bp)
            ELSE Zero
        inner_prod_b1 ==
            IF differences /\ w.b1 > 0
            THEN InnerProductB1(w, ginvdga, ginvdgb, areas_bp)
            ELSE Zero
        trace == InnerProductTrace(w, raised)
    IN [ raised |-> raised,
         value |->
            IF raised THEN Zero
            ELSE RAdd(RAdd(RAdd(RAdd(RAdd(inner_prod_a0, inner_prod_a1),
                                     inner_prod_a2),
                                inner_prod_b1),
                           inner_prod_c1),
                      inner_prod_d1),
         terms |->
            IF raised
            THEN [a0 |-> Zero, a1 |-> Zero, b1 |-> Zero,
                  c1 |-> Zero, d1 |-> Zero, a2 |-> Zero]
            ELSE [a0 |-> inner_prod_a0, a1 |-> inner_prod_a1, b1 |-> inner_prod_b1,
                  c1 |-> inner_prod_c1, d1 |-> inner_prod_d1, a2 |-> inner_prod_a2],
         trace |-> trace ]

\* ------------------------------------------------------------ the inputs

VARIABLES
    faces,          \* DiscreteSurfaces.faces, the triangulation
    weights,        \* ElasticMetric.a0, a1, b1, c1, d1, a2
    n_steps,        \* DiscreteSurfacesExpSolver.n_steps
    op,             \* the operation called last ("none" before any call)
    base_point,     \* the call's point / base_point argument
    tangent_vec,    \* the call's tangent_vec (tangent_vec_a) argument
    tangent_vec_b,  \* the call's tangent_vec_b argument
    result,         \* what the call returned
    pc,             \* the solver's position
    geod,           \* the frames of the geodesic being solved
    paths,          \* the geodesics already solved in this call
    n_minimize,     \* optimizer.minimize calls made in this call
    applied         \* the invocations made of the operator laplacian returned

vars == <<faces, weights, n_steps, op, base_point, tangent_vec, tangent_vec_b,
          result, pc, geod, paths, n_minimize, applied>>

\* bounds of the model
MaxScale == 2

MaxTangent == 1

V(x, y, z) == <<Rat(x), Rat(y), Rat(z)>>

\* the triangulations: one triangle; two triangles sharing the edge 0-1 with
\* consistent winding; one triangle over four vertices, vertex 2 in no face
OneTriangle == << <<0, 1, 2>> >>

TwoTriangles == << <<0, 1, 2>>, <<1, 0, 3>> >>

IsolatedVertex == << <<0, 1, 3>> >>

FacesFamily == {OneTriangle, TwoTriangles, IsolatedVertex}

\* surfaces with rational edge lengths, per triangulation
Templates(f) ==
    IF f = OneTriangle
    THEN { << V(0, 0, 0), V(3, 4, 0), V(0, 4, 0) >>,
           << V(0, 0, 0), V(6, 0, 0), V(3, 0, 4) >>,
           << V(0, 0, 0), V(1, 0, 0), V(2, 0, 0) >>,
           << V(1, 1, 1), V(1, 1, 1), V(1, 1, 1) >> }
    ELSE IF f = TwoTriangles
    THEN { << V(0, 0, 0), V(3, 4, 0), V(0, 4, 0), V(6, 0, 0) >>,
           << V(0, 0, 0), V(3, 4, 0), V(0, 4, 0), V(3, 4, 12) >>,
           << V(0, 0, 0), V(3, 4, 0), V(0, 4, 0), V(6, 8, 0) >>,
           << V(1, 1, 1), V(1, 1, 1), V(1, 1, 1), V(1, 1, 1) >> }
    ELSE { << V(0, 0, 0), V(3, 4, 0), V(1, 1, 1), V(0, 4, 0) >>,
           << V(0, 0, 0), V(1, 0, 0), V(5, 5, 5), V(2, 0, 0) >> }

ScalePoint(k, point) == Arr([v \in 1..Len(point) |-> VScale(Rat(k), point[v])])

Surfaces(f) == {ScalePoint(k, t) : k \in 1..MaxScale, t \in Templates(f)}

\* the base points of the inner-product calls: a regular surface per
\* triangulation and a collapsed one (every metric matrix singular)
MetricBasePoints(f) ==
    IF f = OneTriangle
    THEN { << V(0, 0, 0), V(3, 4, 0), V(0, 4, 0) >>,
           << V(1, 1, 1), V(1, 1, 1), V(1, 1, 1) >> }
    ELSE IF f = TwoTriangles
    THEN { << V(0, 0, 0), V(3, 4, 0), V(0, 4, 0), V(6, 0, 0) >> }
    ELSE { << V(0, 0, 0), V(3, 4, 0), V(1, 1, 1), V(0, 4, 0) >> }

\* two tangent fields moving every vertex, in different directions
FieldOne == << V(1, 0, 0), V(0, 0, 1), V(0, 1, 0), V(0, -1, 1) >>

FieldTwo == << V(0, 1, 0), V(1, 0, 0), V(-1, 0, 1), V(0, 0, 1) >>

\* a tangent field moving the vertex of index 2 only
FieldThree == << V(0, 0, 0), V(0, 0, 0), V(0, 0, 1), V(0, 0, 0) >>

ScaleField(c, field) == Arr([v \in 1..Len(field) |-> VScale(c, field[v])])

ZeroField(n) == Arr([v \in 1..n |-> V(0, 0, 0)])

TangentVecs(n) ==
    {ScaleField(Rat(m), SubSeq(g, 1, n)) :
        m \in 0..MaxTangent, g \in {FieldOne, FieldTwo, FieldThree}}

WeightValues == {0, 1}

WeightConfigs ==
    [a0 : WeightValues, a1 : WeightValues, b1 : WeightValues,
     c1 : WeightValues, d1 : WeightValues, a2 : WeightValues]

\* ElasticMetric.__init__ defaults
DefaultWeights == [a0 |-> 1, a1 |-> 1, b1 |-> 1, c1 |-> 1, d1 |-> 1, a2 |-> 1]

NoResult == <<>>

SolverIdle ==
    /\ n_steps = 0
    /\ pc = "idle"
    /\ geod = <<>>
    /\ paths = <<>>
    /\ n_minimize = 0
    /\ applied = <<>>

\* -------------------------------------------- calls on DiscreteSurfaces

InitSurface ==
    /\ faces \in FacesFamily
    /\ base_point \in Surfaces(faces)
    /\ weights = DefaultWeights
    /\ op = "none"
    /\ tangent_vec = NoResult
    /\ tangent_vec_b = NoResult
    /\ result = NoResult
    /\ SolverIdle

SurfaceCall(name, value) ==
    /\ op = "none"
    /\ op' = name
    /\ result' = value
    /\ UNCHANGED <<faces, weights, n_steps, base_point, tangent_vec, tangent_vec_b,
                   pc, geod, paths, n_minimize, applied>>

TriangleAreasCall == SurfaceCall("_triangle_areas", TriangleAreas(faces, base_point))

VertexAreasCall == SurfaceCall("vertex_areas", VertexAreas(faces, base_point))

NormalsCall == SurfaceCall("normals", Normals(faces, base_point))

SurfaceOneFormsCall == SurfaceCall("surface_one_forms", SurfaceOneForms(faces, base_point))

SurfaceMetricMatricesCall ==
    SurfaceCall("surface_metric_matrices", SurfaceMetricMatrices(faces, base_point))

FaceAreasCall == SurfaceCall("face_areas", FaceAreas(faces, base_point))

LaplacianCall ==
    /\ op = "none"
    /\ \E tv \in TangentVecs(Len(base_point)) :
        /\ op' = "laplacian"
        /\ tangent_vec' = tv
        /\ result' = LaplacianApply(Laplacian(faces, base_point), tv)
        /\ UNCHANGED <<faces, weights, n_steps, base_point, tangent_vec_b,
                       pc, geod, paths, n_minimize, applied>>

NextSurface ==
    \/ TriangleAreasCall
    \/ VertexAreasCall
    \/ NormalsCall
    \/ SurfaceOneFormsCall
    \/ SurfaceMetricMatricesCall
    \/ FaceAreasCall
    \/ LaplacianCall

SpecSurface == InitSurface /\ [][NextSurface]_vars

\* ------------------------------------------- calls on ElasticMetric

InitMetric ==
    /\ faces \in FacesFamily
    /\ base_point \in MetricBasePoints(faces)
    /\ weights \in WeightConfigs
    /\ op = "none"
    /\ tangent_vec = NoResult
    /\ tangent_vec_b = NoResult
    /\ result = NoResult
    /\ SolverIdle

InnerProductCall ==
    /\ op = "none"
    /\ \E ta \in TangentVecs(Len(base_point)), tb \in TangentVecs(Len(base_point)) :
        /\ op' = "inner_product"
        /\ tangent_vec' = ta
        /\ tangent_vec_b' = tb
        /\ result' = InnerProduct(weights, faces, ta, tb, base_point)
        /\ UNCHANGED <<faces, weights, n_steps, base_point, pc, geod, paths, n_minimize, applied>>

NextMetric == InnerProductCall

SpecMetric == InitMetric /\ [][NextMetric]_vars

\* ------------------------------------ calls on DiscreteSurfacesExpSolver
\*
\* An argument of the solver is an array of surfaces: ndim 2 is one surface
\* (data is the surface), ndim 3 is a batch (data is a sequence of surfaces).

MaxSteps == 3

MaxBatch == 2

Single(surface) == [ndim |-> 2, data |-> surface]

Batch(surfaces) == [ndim |-> 3, data |-> surfaces]

\* DiscreteSurfaces.point_ndim
PointNdim == 2

Min(a, b) == IF a < b THEN a ELSE b

\* the triangulations, base surfaces and tangent fields handed to the solver
SolverFaces == {OneTriangle, TwoTriangles}

SolverPoints(f) == MetricBasePoints(f) \cup {ScalePoint(0, t) : t \in MetricBasePoints(f)}

SolverTangents(n) == {ZeroField(n), SubSeq(FieldOne, 1, n)}

SolverWeights ==
    {DefaultWeights, [a0 |-> 1, a1 |-> 0, b1 |-> 0, c1 |-> 0, d1 |-> 0, a2 |-> 0]}

Arrays(S) ==
    {Single(x) : x \in S} \cup
    {Batch(b) : b \in UNION {[1..k -> S] : k \in 1..MaxBatch}}

\* gs.broadcast_arrays, applied when the two ndim differ: the array with
\* fewer dimensions is repeated along the batch axis of the other
BroadcastTo(arg, other) ==
    IF arg.ndim < other.ndim
    THEN Batch(Arr([i \in 1..Len(other.data) |-> arg.data]))
    ELSE arg

IsBatch(tv, bp) == BroadcastTo(bp, tv).ndim > PointNdim

\* every batch entry solved with the data of the first one
ElementsFirstOnly(tv, bp) ==
    LET t == BroadcastTo(tv, bp)
        b == BroadcastTo(bp, tv)
    IN IF ~IsBatch(tv, bp)
       THEN << [tangent_vec |-> t.data, base_point |-> b.data] >>
       ELSE Arr([i \in 1..Min(Len(t.data), Len(b.data)) |->
                [tangent_vec |-> t.data[1], base_point |-> b.data[1]]])

\* the (tangent_vec_, base_point_) pairs the solver goes through: the one
\* pair of a single call, or zip(tangent_vec, base_point) of a batch
Elements(tv, bp) ==
    LET t == BroadcastTo(tv, bp)
        b == BroadcastTo(bp, tv)
    IN IF ~IsBatch(tv, bp)
       THEN << [tangent_vec |-> t.data, base_point |-> b.data] >>
       ELSE Arr([i \in 1..Min(Len(t.data), Len(b.data)) |->
                [tangent_vec |-> t.data[i], base_point |-> b.data[i]]])

\* the first step taken as tangent_vec / n_steps
FirstFramesByNSteps(tv, bp, steps) ==
    LET next_point ==
            Arr([v \in 1..Len(bp) |->
                Arr([k \in 1..3 |-> RAdd(bp[v][k], RDiv(tv[v][k], Rat(steps)))])])
    IN <<bp, next_point>>

\* first two frames of _discrete_geodesic_ivp_single
FirstFrames(tv, bp, steps) ==
    LET next_point ==
            Arr([v \in 1..Len(bp) |->
                Arr([k \in 1..3 |-> RAdd(bp[v][k], RDiv(tv[v][k], Rat(steps - 1)))])])
    IN <<bp, next_point>>

\* the loop started at 1: range(1, self.n_steps)
LoopLengthFromOne(steps) == IF steps > 1 THEN steps - 1 ELSE 0

\* number of iterations of `for _ in range(2, self.n_steps)`
LoopLength(steps) == IF steps > 2 THEN steps - 2 ELSE 0

\* the minimizer started from next_point, without the extrapolation
InitialGuessNextPoint(current_point, next_point) == next_point

\* flat_initial_next_next_point of _stepforward
InitialGuess(current_point, next_point) ==
    Arr([v \in 1..Len(current_point) |->
        VAdd(VScale(Rat(2), VSub(next_point[v], current_point[v])), current_point[v])])

\* inner_product raises at a base point when gs.linalg.inv is reached on a
\* singular metric matrix
InnerProductRaises(w, f, point) ==
    /\ NeedsFirstOrder(w)
    /\ NeedsInverse(w)
    /\ \E i \in 1..Len(f) : IsSingular(SurfaceMetricMatrices(f, point)[i])

\* energy_objective evaluates the metric at current_point and at next_point,
\* whatever the candidate next_next_point
ObjectiveRaises(w, f, current_point, next_point) ==
    \/ InnerProductRaises(w, f, current_point)
    \/ InnerProductRaises(w, f, next_point)

\* a point the minimizer may move to from its initial guess
Displaced(x0) ==
    [x0 EXCEPT ![1] = VAdd(x0[1], V(1, 0, 0))]

\* optimizer.minimize(energy_objective, x0): the failure of the objective
\* propagates; at a stationary start (the two previous frames equal, so the
\* energy and its gradient vanish at x0) the result is x0; otherwise the result
\* is whatever the minimizer settles on
Minimize(w, f, current_point, next_point, x0) ==
    IF ObjectiveRaises(w, f, current_point, next_point)
    THEN {[raised |-> TRUE, x |-> x0]}
    ELSE IF current_point = next_point
    THEN {[raised |-> FALSE, x |-> x0]}
    ELSE {[raised |-> FALSE, x |-> x0], [raised |-> FALSE, x |-> Displaced(x0)]}

\* discr_geod_path as discrete_geodesic_ivp returns it
DiscreteGeodesicIvp(tv, bp, stacked) ==
    IF IsBatch(tv, bp) THEN stacked ELSE stacked[1]

\* the frame after the base point instead of the last one
SecondFrame(path) == path[2]

\* discr_geod_path[..., -1, :, :]
LastFrame(path) == path[Len(path)]

Exp(tv, bp, stacked) ==
    IF IsBatch(tv, bp)
    THEN Arr([i \in 1..Len(stacked) |-> LastFrame(stacked[i])])
    ELSE LastFrame(stacked[1])

\* UniformlySampledDiscretePath(discr_geod_path, point_ndim)
GeodesicIvp(tv, bp, stacked) ==
    [path |-> DiscreteGeodesicIvp(tv, bp, stacked), point_ndim |-> PointNdim]

SolverOps == {"discrete_geodesic_ivp", "exp", "geodesic_ivp"}

Raised == [raised |-> TRUE]

InitSolver ==
    /\ faces \in SolverFaces
    /\ weights \in SolverWeights
    /\ n_steps \in 1..MaxSteps
    /\ op = "none"
    /\ base_point = NoResult
    /\ tangent_vec = NoResult
    /\ tangent_vec_b = NoResult
    /\ result = NoResult
    /\ pc = "idle"
    /\ geod = <<>>
    /\ paths = <<>>
    /\ n_minimize = 0
    /\ applied = <<>>

\* entry of discrete_geodesic_ivp, exp or geodesic_ivp
SolverCall ==
    /\ op = "none"
    /\ \E name \in SolverOps,
          tv \in Arrays(SolverTangents(MaxIndex(faces) + 1)),
          bp \in Arrays(SolverPoints(faces)) :
        /\ op' = name
        /\ tangent_vec' = tv
        /\ base_point' = bp
        /\ pc' = "single"
        /\ UNCHANGED <<faces, weights, n_steps, tangent_vec_b, result, geod, paths,
                       n_minimize, applied>>

\* the first step taken in place: base_point += tangent_vec / (n_steps - 1)
StartSingleInPlace ==
    /\ pc = "single"
    /\ LET e == Elements(tangent_vec, base_point)[Len(paths) + 1]
           frames == FirstFrames(e.tangent_vec, e.base_point, n_steps)
       IN /\ geod' = <<frames[2], frames[2]>>
          /\ base_point' = IF base_point.ndim > PointNdim
                           THEN [base_point EXCEPT !.data[Len(paths) + 1] = frames[2]]
                           ELSE [base_point EXCEPT !.data = frames[2]]
    /\ pc' = "loop"
    /\ UNCHANGED <<faces, weights, n_steps, op, tangent_vec, tangent_vec_b,
                   result, paths, n_minimize, applied>>

\* _discrete_geodesic_ivp_single up to its loop, on the next element
StartSingle ==
    /\ pc = "single"
    /\ LET e == Elements(tangent_vec, base_point)[Len(paths) + 1]
       IN geod' = FirstFrames(e.tangent_vec, e.base_point, n_steps)
    /\ pc' = "loop"
    /\ UNCHANGED <<faces, weights, n_steps, op, base_point, tangent_vec, tangent_vec_b,
                   result, paths, n_minimize, applied>>

\* one iteration of the loop: _stepforward returns and the frame is appended
StepForward ==
    /\ pc = "loop"
    /\ Len(geod) < 2 + LoopLength(n_steps)
    /\ LET current_point == geod[Len(geod) - 1]
           next_point == geod[Len(geod)]
       IN \E sol \in Minimize(weights, faces, current_point, next_point,
                              InitialGuess(current_point, next_point)) :
              /\ ~sol.raised
              /\ geod' = Append(geod, sol.x)
    /\ n_minimize' = n_minimize + 1
    /\ UNCHANGED <<faces, weights, n_steps, op, base_point, tangent_vec, tangent_vec_b,
                   result, pc, paths, applied>>

\* the minimizer raises and the same frame is tried again
StepRaisesRetry ==
    /\ pc = "loop"
    /\ Len(geod) < 2 + LoopLength(n_steps)
    /\ LET current_point == geod[Len(geod) - 1]
           next_point == geod[Len(geod)]
       IN \E sol \in Minimize(weights, faces, current_point, next_point,
                              InitialGuess(current_point, next_point)) :
              sol.raised
    /\ n_minimize' = n_minimize + 1
    /\ UNCHANGED <<faces, weights, n_steps, op, base_point, tangent_vec, tangent_vec_b,
                   result, pc, geod, paths, applied>>

\* one iteration of the loop: the minimizer raises and the call is abandoned
StepRaises ==
    /\ pc = "loop"
    /\ Len(geod) < 2 + LoopLength(n_steps)
    /\ LET current_point == geod[Len(geod) - 1]
           next_point == geod[Len(geod)]
       IN \E sol \in Minimize(weights, faces, current_point, next_point,
                              InitialGuess(current_point, next_point)) :
              sol.raised
    /\ n_minimize' = n_minimize + 1
    /\ pc' = "raised"
    /\ result' = Raised
    /\ UNCHANGED <<faces, weights, n_steps, op, base_point, tangent_vec, tangent_vec_b,
                   geod, paths, applied>>

\* the loop is over: gs.stack(geod), then the next element or the return
FinishSingle ==
    /\ pc = "loop"
    /\ Len(geod) = 2 + LoopLength(n_steps)
    /\ paths' = Append(paths, geod)
    /\ pc' = IF Len(paths) + 1 < Len(Elements(tangent_vec, base_point))
             THEN "single" ELSE "return"
    /\ UNCHANGED <<faces, weights, n_steps, op, base_point, tangent_vec, tangent_vec_b,
                   result, geod, n_minimize, applied>>

\* return of discrete_geodesic_ivp, exp or geodesic_ivp
SolverReturn ==
    /\ pc = "return"
    /\ result' = CASE op = "discrete_geodesic_ivp" ->
                        DiscreteGeodesicIvp(tangent_vec, base_point, paths)
                   [] op = "exp" -> Exp(tangent_vec, base_point, paths)
                   [] op = "geodesic_ivp" -> GeodesicIvp(tangent_vec, base_point, paths)
    /\ pc' = "done"
    /\ UNCHANGED <<faces, weights, n_steps, op, base_point, tangent_vec, tangent_vec_b,
                   geod, paths, n_minimize, applied>>

NextSolver ==
    \/ SolverCall
    \/ StartSingle
    \/ StepForward
    \/ StepRaises
    \/ FinishSingle
    \/ SolverReturn

SpecSolver == InitSolver /\ [][NextSolver]_vars

\* ------------------------------------------------ claims on ElasticMetric

Called == op = "inner_product"

Returned == Called /\ ~result.raised

InTrace(name) == \E i \in 1..Len(result.trace) : result.trace[i] = name

TermNames == {"a0", "a1", "b1", "c1", "d1", "a2"}

RegularBasePoint ==
    \A f \in 1..Len(faces) : ~IsSingular(SurfaceMetricMatrices(faces, base_point)[f])

\* C1: inner_product is symmetric: swapping the two tangent vectors gives the
\* same outcome (the same value, or gs.linalg.inv raising in both calls), for
\* every weight configuration, base surface and pair of tangent vectors.
C1_Symmetric ==
    Called =>
        LET swapped == InnerProduct(weights, faces, tangent_vec_b, tangent_vec, base_point)
        IN /\ swapped.raised = result.raised
           /\ swapped.value = result.value

C1_Witness ==
    /\ Returned
    /\ weights = DefaultWeights
    /\ tangent_vec # tangent_vec_b
    /\ IsFinite(result.value)
    /\ \A t \in TermNames : result.terms[t] # Zero

Scalars == {Rat(2), Rat(-1)}

\* C2: inner_product is homogeneous in its first argument:
\* inner_product(c*u, v, p) = c * inner_product(u, v, p) for every weight
\* configuration, the default all-ones weights included.
C2_Homogeneous ==
    Returned =>
        \A c \in Scalars :
            InnerProduct(weights, faces, ScaleField(c, tangent_vec),
                         tangent_vec_b, base_point).value
                = RMul(c, result.value)

\* each term computed on its own from the base point, whatever the other weights
TermAlone(t) ==
    LET one_forms_bp == SurfaceOneForms(faces, base_point)
        surface_metrics_bp == SurfaceMetricMatricesFromOneForms(one_forms_bp)
        areas_bp == Arr([f \in 1..Len(faces) |-> RSqrt(Det2(surface_metrics_bp[f]))])
        ginv_bp == Arr([f \in 1..Len(faces) |-> Inv2(surface_metrics_bp[f])])
        point_a == PointPlus(base_point, tangent_vec)
        point_b == PointPlus(base_point, tangent_vec_b)
        one_forms_a == SurfaceOneForms(faces, point_a)
        one_forms_b == SurfaceOneForms(faces, point_b)
        ginvdg(one_forms) ==
            Arr([f \in 1..Len(faces) |->
                MatMul(ginv_bp[f],
                       MatSub(MatMul(one_forms[f], Transpose(one_forms[f])),
                              surface_metrics_bp[f]))])
    IN CASE t = "a0" ->
              InnerProductA0(weights, tangent_vec, tangent_vec_b,
                             VertexAreas(faces, base_point))
         [] t = "a2" ->
              InnerProductA2(weights, faces, tangent_vec, tangent_vec_b, base_point,
                             VertexAreas(faces, base_point))
         [] t = "a1" ->
              InnerProductA1(weights, ginvdg(one_forms_a), ginvdg(one_forms_b), areas_bp)
         [] t = "b1" ->
              InnerProductB1(weights, ginvdg(one_forms_a), ginvdg(one_forms_b), areas_bp)
         [] t = "c1" ->
              InnerProductC1(weights, faces, point_a, point_b,
                             Normals(faces, base_point), areas_bp)
         [] t = "d1" ->
              InnerProductD1(weights, one_forms_a, one_forms_b, one_forms_bp,
                             areas_bp, ginv_bp)

TermIfPositive(t) == IF weights[t] > 0 THEN TermAlone(t) ELSE Zero

\* C3: the value returned is the sum of exactly the terms whose weight is
\* strictly positive; d1 > 0 with a1 = b1 = c1 = 0 included.
C3_SumOfPositiveTerms ==
    (Returned /\ RegularBasePoint) =>
        result.value =
            RAdd(RAdd(RAdd(RAdd(RAdd(TermIfPositive("a0"), TermIfPositive("a1")),
                                TermIfPositive("a2")),
                           TermIfPositive("b1")),
                      TermIfPositive("c1")),
                 TermIfPositive("d1"))

\* C4: a term whose weight is 0 is never computed and contributes exactly 0;
\* with a2 = 0 the Laplacian is never built and nothing is divided by a vertex
\* area; with a0 = a2 = 0 the vertex areas are never computed.
C4_ZeroWeightShortCircuit ==
    Called =>
        /\ \A t \in TermNames :
              weights[t] = 0 =>
                  /\ ~InTrace("_inner_product_" \o t)
                  /\ result.terms[t] = Zero
        /\ weights.a2 = 0 =>
              /\ ~InTrace("laplacian")
              /\ ~InTrace("_laplacian")
              /\ ~InTrace("divide_by_vertex_areas")
        /\ (weights.a0 = 0 /\ weights.a2 = 0) => ~InTrace("vertex_areas")

C4_Witness ==
    /\ Returned
    /\ weights.a0 = 0
    /\ weights.a2 = 0
    /\ weights.c1 = 1
    /\ weights.a1 = 0
    /\ InTrace("_inner_product_c1")
    /\ result.value # Zero

\* ---------------------------------------------- claims on DiscreteSurfaces

\* the faces a vertex (0-based index) belongs to
IncidentFaces(v) == {f \in 1..Len(faces) : \E k \in 1..3 : faces[f][k] = v}

RECURSIVE SumOver(_, _)
SumOver(S, area) ==
    IF S = {} THEN Zero
    ELSE LET f == CHOOSE x \in S : TRUE
         IN RAdd(area[f], SumOver(S \ {f}, area))

TwoThirds == <<2, 3>>

\* every face's Heron radicand lies above the floor
NonDegenerate ==
    \A f \in 1..Len(faces) :
        RLess(RSqrt(HeronFloor), TriangleAreas(faces, base_point)[f])

\* C5: vertex_areas(p)[v] is 2/3 of the sum of the Heron areas of exactly the
\* faces incident to v, for every triangulation.
C5_IncidentAreas ==
    op = "vertex_areas" =>
        \A v \in 1..Len(base_point) :
            result[v] = RMul(TwoThirds,
                             SumOver(IncidentFaces(v - 1),
                                     TriangleAreas(faces, base_point)))

\* C6: the vertex areas sum to twice the sum of the (floored) Heron areas of
\* the faces; on a one-face mesh each of the three vertices gets 2/3 of the area.
C6_VertexAreasSum ==
    op = "vertex_areas" =>
        LET area == TriangleAreas(faces, base_point)
        IN /\ SumSeq(result) = RMul(Rat(2), SumSeq(area))
           /\ Len(faces) = 1 =>
                 \A k \in 1..3 : result[faces[1][k] + 1] = RMul(TwoThirds, area[1])

C6_Witness ==
    /\ op = "vertex_areas"
    /\ faces = TwoTriangles
    /\ NonDegenerate
    /\ TriangleAreas(faces, base_point)[1] # TriangleAreas(faces, base_point)[2]

\* C7 as stated: face_areas equals the Heron area of _triangle_areas, face by
\* face, on surfaces without degenerate faces.
C7_FaceAreasEqualHeron ==
    (op = "face_areas" /\ NonDegenerate) => result = TriangleAreas(faces, base_point)

\* C7, amended: on surfaces without degenerate faces, face_areas is twice the
\* Heron area of _triangle_areas, face by face.
C7_FaceAreasTwiceHeron ==
    (op = "face_areas" /\ NonDegenerate) =>
        \A f \in 1..Len(faces) :
            result[f] = RMul(Rat(2), TriangleAreas(faces, base_point)[f])

C7_Witness ==
    /\ op = "face_areas"
    /\ NonDegenerate
    /\ faces = TwoTriangles
    /\ result[1] # result[2]

\* ------------------------------------ claims on DiscreteSurfacesExpSolver

SolverReturned(name) == op = name /\ pc = "done"

SingleCall == ~IsBatch(tangent_vec, base_point)

\* C8: for every n_steps >= 1 the geodesic returned by discrete_geodesic_ivp
\* for a single surface has exactly n_steps frames and frame 0 is base_point.
C8_FrameCount ==
    (SolverReturned("discrete_geodesic_ivp") /\ SingleCall) =>
        /\ Len(result) = n_steps
        /\ result[1] = base_point.data

\* C9: a zero tangent vector is stationary: exp(0, p) returns p and every
\* frame of the discretized geodesic equals p.
C9_ZeroStationary ==
    (SolverReturned("exp") /\ SingleCall
        /\ tangent_vec.data = ZeroField(Len(base_point.data))) =>
        /\ result = base_point.data
        /\ \A k \in 1..Len(paths[1]) : paths[1][k] = base_point.data

\* C10: exp returns the last frame of the path discrete_geodesic_ivp produced
\* for the same arguments; for a batch, the last frame of each element's
\* geodesic, in batch order.
C10_ExpIsLastFrame ==
    SolverReturned("exp") =>
        LET path == DiscreteGeodesicIvp(tangent_vec, base_point, paths)
        IN IF SingleCall
           THEN result = path[Len(path)]
           ELSE /\ Len(result) = Len(path)
                /\ \A i \in 1..Len(path) : result[i] = path[i][Len(path[i])]

C10_Witness ==
    /\ SolverReturned("exp")
    /\ ~SingleCall
    /\ n_steps = 3
    /\ Len(paths) = 2
    /\ result[1] # result[2]
    /\ \A i \in 1..2 : /\ paths[i][3] # paths[i][2]
                       /\ paths[i][3] # paths[i][1]
                       /\ result[i] = paths[i][3]

\* ------------------------------------------ claims on the a0 term

A0Only == [a0 |-> 1, a1 |-> 0, b1 |-> 0, c1 |-> 0, d1 |-> 0, a2 |-> 0]

RECURSIVE WeightedL2(_, _, _, _)
WeightedL2(area, u, w, n) ==
    IF n = 0 THEN Zero
    ELSE RAdd(WeightedL2(area, u, w, n - 1), RMul(area[n], Dot(u[n], w[n])))

\* C11: with a0 = 1 and every other weight 0, inner_product(u, v, p) is the
\* sum over the vertices of vertex_areas(p)[vertex] * <u[vertex], v[vertex]>,
\* and no other term is evaluated.
C11_A0TermOnly ==
    (Called /\ weights = A0Only) =>
        /\ ~result.raised
        /\ result.value = WeightedL2(VertexAreas(faces, base_point), tangent_vec,
                                     tangent_vec_b, Len(base_point))
        /\ result.trace = <<"vertex_areas", "_inner_product_a0">>

C11_Witness ==
    /\ Called
    /\ weights = A0Only
    /\ faces = TwoTriangles
    /\ tangent_vec # tangent_vec_b
    /\ result.value # Zero

\* C12: with a0 = 1 and every other weight 0, inner_product(u, u, p) >= 0,
\* and it is 0 only when u is zero at every vertex incident to a face.
C12_A0NonNegative ==
    (Called /\ weights = A0Only /\ tangent_vec = tangent_vec_b) =>
        /\ ~result.raised
        /\ ~RLess(result.value, Zero)
        /\ result.value = Zero =>
              \A v \in 1..Len(base_point) :
                  IncidentFaces(v - 1) # {} => tangent_vec[v] = V(0, 0, 0)

C12_Witness ==
    /\ Called
    /\ weights = A0Only
    /\ tangent_vec = tangent_vec_b
    /\ faces = IsolatedVertex
    /\ tangent_vec # ZeroField(Len(base_point))
    /\ result.value = Zero

\* ------------------------------------------------- claims on normals

\* the edge vectors v1 - v0 and v2 - v0 of face f of the surface called on
EdgeVector(f, k) == VSub(base_point[faces[f][k] + 1], base_point[faces[f][1] + 1])

\* Heron's radicand of face f, without the floor
UnflooredRadicand(f) ==
    LET l12 == VNorm(VSub(base_point[faces[f][2] + 1], base_point[faces[f][3] + 1]))
        l02 == VNorm(VSub(base_point[faces[f][1] + 1], base_point[faces[f][3] + 1]))
        l01 == VNorm(VSub(base_point[faces[f][1] + 1], base_point[faces[f][2] + 1]))
        h == RMul(Half, RAdd(RAdd(l12, l02), l01))
    IN RMul(RMul(RMul(h, RSub(h, l12)), RSub(h, l02)), RSub(h, l01))

\* C13: for every face, normals(point) is 0.5 * cross(v1 - v0, v2 - v0): it is
\* orthogonal to both edge vectors and its squared magnitude is the squared
\* triangle area, the unfloored Heron radicand.
C13_Normals ==
    op = "normals" =>
        \A f \in 1..Len(faces) :
            LET e1 == EdgeVector(f, 2)
                e2 == EdgeVector(f, 3)
            IN /\ result[f] = VScale(Half, Cross(e1, e2))
               /\ Dot(result[f], e1) = Zero
               /\ Dot(result[f], e2) = Zero
               /\ Dot(result[f], result[f]) = UnflooredRadicand(f)

C13_Witness ==
    /\ op = "normals"
    /\ faces = TwoTriangles
    /\ NonDegenerate
    /\ Dot(result[1], result[1]) # Dot(result[2], result[2])
    /\ Dot(result[2], result[2]) # Zero

\* ------------------------------------------- belongs and is_tangent
\*
\* Both methods read only the shape of their arguments: an argument is an
\* array given by its shape, and a boolean result is gs.ones / gs.zeros of a
\* shape, given by that shape and the one value of all its elements.

MaxNdim == 4
MaxInvocations == 3
MaxFrames == 4

DimValues == {1, 3, 4}

Shapes == UNION {[1..k -> DimValues] : k \in 0..MaxNdim}

ArrayOfShape(shape) == [shape |-> shape]

None == [none |-> TRUE]

Ndim(array) == Len(array.shape)

\* DiscreteSurfaces.shape
SpaceShape(f) == <<NVertices(f), 3>>

\* shape[-point_ndim:]
TrailingShape(shape) ==
    IF Len(shape) <= PointNdim THEN shape
    ELSE SubSeq(shape, Len(shape) - PointNdim + 1, Len(shape))

\* shape[:-point_ndim]
BatchShape(shape) ==
    IF Len(shape) <= PointNdim THEN <<>> ELSE SubSeq(shape, 1, Len(shape) - PointNdim)

\* belongs
Belongs(f, point) ==
    [raised |-> FALSE,
     shape |-> BatchShape(point.shape),
     value |-> SpaceShape(f) = TrailingShape(point.shape)]

\* numpy's broadcasting rule: aligned from the right, a dimension of the
\* source is 1 or the dimension of the target
Broadcastable(source, target) ==
    /\ Len(source) <= Len(target)
    /\ \A i \in 1..Len(source) :
          LET d == source[Len(source) - i + 1]
          IN d = 1 \/ d = target[Len(target) - i + 1]

\* gs.broadcast_to, which raises on shapes that do not broadcast
BroadcastToShape(array, target) ==
    IF Broadcastable(array.shape, target)
    THEN [array EXCEPT !.shape = target]
    ELSE [raised |-> TRUE, shape |-> <<>>, value |-> FALSE]

\* is_tangent
IsTangent(f, vector, point) ==
    LET belongs == Belongs(f, vector)
    IN IF point # None /\ Ndim(point) > Ndim(vector)
       THEN BroadcastToShape(belongs, BatchShape(point.shape))
       ELSE belongs

InitShape ==
    /\ faces \in FacesFamily
    /\ weights = DefaultWeights
    /\ op = "none"
    /\ base_point = NoResult
    /\ tangent_vec = NoResult
    /\ tangent_vec_b = NoResult
    /\ result = NoResult
    /\ SolverIdle

BelongsCall ==
    /\ op = "none"
    /\ \E shape \in Shapes :
        /\ op' = "belongs"
        /\ base_point' = ArrayOfShape(shape)
        /\ result' = Belongs(faces, ArrayOfShape(shape))
        /\ UNCHANGED <<faces, weights, n_steps, tangent_vec, tangent_vec_b,
                       pc, geod, paths, n_minimize, applied>>

IsTangentCall ==
    /\ op = "none"
    /\ \E shape \in Shapes, point \in {ArrayOfShape(sh) : sh \in Shapes} \cup {None} :
        /\ op' = "is_tangent"
        /\ tangent_vec' = ArrayOfShape(shape)
        /\ base_point' = point
        /\ result' = IsTangent(faces, ArrayOfShape(shape), point)
        /\ UNCHANGED <<faces, weights, n_steps, tangent_vec_b,
                       pc, geod, paths, n_minimize, applied>>

NextShape ==
    \/ BelongsCall
    \/ IsTangentCall

SpecShape == InitShape /\ [][NextShape]_vars

\* C14: belongs and is_tangent are total: whatever the shape of the input they
\* do not raise; belongs returns a boolean array over the leading batch
\* dimensions; the value is True exactly when the trailing two dimensions of
\* the input are (n_vertices, 3).
C14_ShapeChecksTotal ==
    /\ op = "belongs" =>
          /\ ~result.raised
          /\ result.shape = BatchShape(base_point.shape)
          /\ result.value = (TrailingShape(base_point.shape) = <<MaxIndex(faces) + 1, 3>>)
    /\ op = "is_tangent" =>
          /\ ~result.raised
          /\ result.value = (TrailingShape(tangent_vec.shape) = <<MaxIndex(faces) + 1, 3>>)

\* ------------------------------------------ claims on solver failures

RECURSIVE SolvedIn(_)
SolvedIn(stacked) ==
    IF stacked = <<>> THEN 0
    ELSE (Len(Head(stacked)) - 2) + SolvedIn(Tail(stacked))

\* frames the minimizer has produced so far in this call
FramesSolved ==
    SolvedIn(paths) + (IF pc \in {"loop", "raised"} THEN Len(geod) - 2 ELSE 0)

\* C15: when the minimizer raises on a frame the call fails with it: that
\* frame is not retried, no later frame is computed and no partial path is
\* returned; when the minimizer returns, its result is the next frame as-is.
C15_FailurePropagates ==
    /\ [](/\ pc = "raised" => (result = Raised /\ n_minimize = FramesSolved + 1)
          /\ pc # "raised" => n_minimize = FramesSolved)
    /\ [][/\ pc = "raised" => UNCHANGED vars
          /\ (pc = "loop" /\ geod' # geod) =>
                \E sol \in Minimize(weights, faces, geod[Len(geod) - 1], geod[Len(geod)],
                                    InitialGuess(geod[Len(geod) - 1], geod[Len(geod)])) :
                    /\ ~sol.raised
                    /\ geod' = Append(geod, sol.x)]_vars

C15_Witness ==
    /\ pc = "raised"
    /\ result = Raised
    /\ Len(paths) = 1
    /\ Len(paths[1]) = 3
    /\ n_minimize = 2

\* ------------------------------------------------- claims on batches

\* the i-th batch element of an argument, read from the argument itself
ElementOf(arg, i) == IF arg.ndim > PointNdim THEN arg.data[i] ELSE arg.data

\* g is a geodesic the solver can produce for element i solved on its own
SolvedAlone(g, i) ==
    /\ Len(g) = 2 + LoopLength(n_steps)
    /\ SubSeq(g, 1, 2) = FirstFrames(ElementOf(tangent_vec, i), ElementOf(base_point, i),
                                     n_steps)
    /\ \A k \in 3..Len(g) :
          \E sol \in Minimize(weights, faces, g[k - 2], g[k - 1],
                              InitialGuess(g[k - 2], g[k - 1])) :
              /\ ~sol.raised
              /\ g[k] = sol.x

\* C16: in a batched call the geodesic of element i is one the solver gives
\* for element i alone, whatever the other elements are; the geodesics are
\* stacked in batch order; the frames of an element already solved are not
\* touched while another element is solved, and an element starts from its own
\* base point and tangent vector only. An element's geodesic is compared when
\* it is appended and again when the call returns.
C16_BatchIndependence ==
    /\ [](/\ (op # "none" /\ ~SingleCall /\ pc \in {"single", "return"} /\ paths # <<>>) =>
                SolvedAlone(paths[Len(paths)], Len(paths))
          /\ (SolverReturned("discrete_geodesic_ivp") /\ ~SingleCall) =>
                /\ result = paths
                /\ \A i \in 1..Len(result) : SolvedAlone(result[i], i))
    /\ [][/\ pc = "loop" /\ pc' = "loop" => paths' = paths
          /\ pc = "loop" /\ pc' # "loop" /\ pc' # "raised" => paths' = Append(paths, geod)
          /\ pc = "single" =>
                geod' = FirstFrames(ElementOf(tangent_vec, Len(paths) + 1),
                                    ElementOf(base_point, Len(paths) + 1), n_steps)]_vars

C16_Witness ==
    /\ SolverReturned("discrete_geodesic_ivp")
    /\ tangent_vec.ndim = 3
    /\ base_point.ndim = 3
    /\ n_steps = 3
    /\ Len(result) = 2
    /\ result[1][1] # result[2][1]
    /\ result[1][3] # result[1][2]
    /\ result[2][3] # result[2][2]

\* ------------------------------------- claims on shared intermediates

\* how many times inner_product called the helper
Count(name) == Cardinality({i \in 1..Len(result.trace) : result.trace[i] = name})

SharedIntermediates ==
    {"vertex_areas", "surface_one_forms_bp", "_surface_metric_matrices_from_one_forms",
     "normals_bp", "inv", "surface_one_forms_a", "surface_one_forms_b"}

\* C17: within one inner_product call each shared intermediate is computed at
\* most once; the inverse metric and the one-forms at point_a and point_b are
\* computed once for the a1, b1 and d1 terms together.
C17_ComputedOnce ==
    Called =>
        /\ \A name \in SharedIntermediates : Count(name) <= 1
        /\ (InTrace("_inner_product_a1") \/ InTrace("_inner_product_b1")
                \/ InTrace("_inner_product_d1")) =>
              /\ Count("inv") = 1
              /\ Count("surface_one_forms_a") = 1
              /\ Count("surface_one_forms_b") = 1

C17_Witness ==
    /\ Returned
    /\ weights = DefaultWeights
    /\ InTrace("_inner_product_a1")
    /\ InTrace("_inner_product_b1")
    /\ InTrace("_inner_product_d1")
    /\ Count("inv") = 1
    /\ Count("vertex_areas") = 1
    /\ Count("normals_bp") = 1

\* ------------------------------------------------ sequences of calls
\*
\* One space, one metric and one solver, called any number of times: a call
\* binds its arguments, runs, and returns to the caller.

SurfaceOps ==
    {"_triangle_areas", "vertex_areas", "normals", "surface_one_forms",
     "surface_metric_matrices", "face_areas"}

\* the DiscreteSurfaces method of that name, applied to a point
SurfaceValue(name, f, point) ==
    CASE name = "_triangle_areas" -> TriangleAreas(f, point)
      [] name = "vertex_areas" -> VertexAreas(f, point)
      [] name = "normals" -> Normals(f, point)
      [] name = "surface_one_forms" -> SurfaceOneForms(f, point)
      [] name = "surface_metric_matrices" -> SurfaceMetricMatrices(f, point)
      [] name = "face_areas" -> FaceAreas(f, point)

\* the shapes handed to belongs and is_tangent: one surface, a batch, a
\* batch of batches, and an array that is no surface
SessionShapes(f) ==
    {SpaceShape(f), <<1>> \o SpaceShape(f), <<3, 1>> \o SpaceShape(f), <<3>>}

SessionSurfaceCall ==
    /\ op = "none"
    /\ \E name \in SurfaceOps, point \in MetricBasePoints(faces) :
          /\ op' = name
          /\ base_point' = point
          /\ result' = SurfaceValue(name, faces, point)
    /\ UNCHANGED <<faces, weights, n_steps, tangent_vec, tangent_vec_b,
                   pc, geod, paths, n_minimize, applied>>

SessionLaplacianCall ==
    /\ op = "none"
    /\ \E point \in MetricBasePoints(faces), tv \in TangentVecs(MaxIndex(faces) + 1) :
          /\ op' = "laplacian"
          /\ base_point' = point
          /\ tangent_vec' = tv
          /\ result' = LaplacianApply(Laplacian(faces, point), tv)
    /\ UNCHANGED <<faces, weights, n_steps, tangent_vec_b, pc, geod, paths, n_minimize, applied>>

SessionInnerProductCall ==
    /\ op = "none"
    /\ \E point \in MetricBasePoints(faces),
          ta \in TangentVecs(MaxIndex(faces) + 1),
          tb \in TangentVecs(MaxIndex(faces) + 1) :
          /\ op' = "inner_product"
          /\ base_point' = point
          /\ tangent_vec' = ta
          /\ tangent_vec_b' = tb
          /\ result' = InnerProduct(weights, faces, ta, tb, point)
    /\ UNCHANGED <<faces, weights, n_steps, pc, geod, paths, n_minimize, applied>>

SessionBelongsCall ==
    /\ op = "none"
    /\ \E shape \in SessionShapes(faces) :
          /\ op' = "belongs"
          /\ base_point' = ArrayOfShape(shape)
          /\ result' = Belongs(faces, ArrayOfShape(shape))
    /\ UNCHANGED <<faces, weights, n_steps, tangent_vec, tangent_vec_b,
                   pc, geod, paths, n_minimize, applied>>

SessionIsTangentCall ==
    /\ op = "none"
    /\ \E shape \in SessionShapes(faces),
          point \in {ArrayOfShape(sh) : sh \in SessionShapes(faces)} \cup {None} :
          /\ op' = "is_tangent"
          /\ tangent_vec' = ArrayOfShape(shape)
          /\ base_point' = point
          /\ result' = IsTangent(faces, ArrayOfShape(shape), point)
    /\ UNCHANGED <<faces, weights, n_steps, tangent_vec_b, pc, geod, paths, n_minimize, applied>>

\* the call is over: the caller drops its arguments and its result, and the
\* locals of the call are gone
CallReturns ==
    /\ op # "none"
    /\ pc \in {"idle", "done", "raised"}
    /\ op' = "none"
    /\ base_point' = NoResult
    /\ tangent_vec' = NoResult
    /\ tangent_vec_b' = NoResult
    /\ result' = NoResult
    /\ pc' = "idle"
    /\ geod' = <<>>
    /\ paths' = <<>>
    /\ n_minimize' = 0
    /\ applied' = <<>>
    /\ UNCHANGED <<faces, weights, n_steps, applied>>

NextSession ==
    \/ SessionSurfaceCall
    \/ SessionLaplacianCall
    \/ SessionInnerProductCall
    \/ SessionBelongsCall
    \/ SessionIsTangentCall
    \/ SolverCall
    \/ StartSingle
    \/ StepForward
    \/ StepRaises
    \/ FinishSingle
    \/ SolverReturn
    \/ CallReturns

SpecSession == InitSolver /\ [][NextSession]_vars

\* C18: no sequence of calls changes the triangulation, the six weights or the
\* solver's n_steps, and no call changes the arrays it was given.
C18_Immutable ==
    [][/\ faces' = faces
       /\ weights' = weights
       /\ n_steps' = n_steps
       /\ (op # "none" /\ op' # "none") =>
             /\ op' = op
             /\ base_point' = base_point
             /\ tangent_vec' = tangent_vec
             /\ tangent_vec_b' = tangent_vec_b]_vars

C18_Witness ==
    /\ SolverReturned("geodesic_ivp")
    /\ n_steps = 3
    /\ ~SingleCall
    /\ n_minimize = 2
    /\ base_point.ndim = 3
    /\ Len(base_point.data) = 2
    /\ tangent_vec.data # ZeroField(MaxIndex(faces) + 1)

\* ------------------------------------- the operator laplacian returns
\*
\* laplacian(point) returns the closure _laplacian; result holds the cells it
\* captured, and applied the invocations made of it, in order.

\* laplacian(base_point): everything up to "return _laplacian"
LaplacianReturns ==
    /\ op = "none"
    /\ op' = "laplacian_operator"
    /\ result' = Laplacian(faces, base_point)
    /\ UNCHANGED <<faces, weights, n_steps, base_point, tangent_vec, tangent_vec_b,
                   pc, geod, paths, n_minimize, applied>>

\* _laplacian with "cot /= 2.0" applied to the captured weights on each invocation
InvokeLaplacianRescaling ==
    /\ op = "laplacian_operator"
    /\ Len(applied) < MaxInvocations
    /\ \E tv \in TangentVecs(Len(base_point)) :
          LET lap == [result EXCEPT !.cot_flatten =
                         Arr([i \in DOMAIN result.cot_flatten |->
                                 RDiv(result.cot_flatten[i], Rat(2))])]
          IN /\ tangent_vec' = tv
             /\ result' = lap
             /\ applied' = Append(applied, [tangent_vec |-> tv,
                                            value |-> LaplacianApply(lap, tv)])
    /\ UNCHANGED <<faces, weights, n_steps, op, base_point, tangent_vec_b,
                   pc, geod, paths, n_minimize>>

\* one invocation _laplacian(tangent_vec) of the returned operator
InvokeLaplacian ==
    /\ op = "laplacian_operator"
    /\ Len(applied) < MaxInvocations
    /\ \E tv \in TangentVecs(Len(base_point)) :
          /\ tangent_vec' = tv
          /\ applied' = Append(applied, [tangent_vec |-> tv,
                                         value |-> LaplacianApply(result, tv)])
    /\ UNCHANGED <<faces, weights, n_steps, op, base_point, tangent_vec_b,
                   result, pc, geod, paths, n_minimize>>

NextOperator ==
    \/ LaplacianReturns
    \/ InvokeLaplacian

SpecOperator == InitSurface /\ [][NextOperator]_vars

\* C19: the operator laplacian(base_point) returns can be invoked any number of
\* times in any order: every invocation's value is the closure applied to its
\* tangent vector with the weights and index table captured at construction,
\* equal tangent vectors give equal values whatever was invoked in between,
\* and no invocation changes what was captured or what was returned earlier
\* (so it is enough to state the first two of the latest invocation).
C19_OperatorReinvocable ==
    /\ [](op = "laplacian_operator" =>
            /\ applied = <<>> => result = Laplacian(faces, base_point)
            /\ applied # <<>> =>
                  LET last == applied[Len(applied)]
                  IN /\ last.tangent_vec = tangent_vec
                     /\ last.value = LaplacianApply(result, tangent_vec)
                     /\ \A i \in 1..Len(applied) :
                           applied[i].tangent_vec = tangent_vec
                               => applied[i].value = last.value)
    /\ [][op = "laplacian_operator" =>
            /\ result' = result
            /\ SubSeq(applied', 1, Len(applied)) = applied]_vars

C19_Witness ==
    /\ op = "laplacian_operator"
    /\ Len(applied) = 3
    /\ applied[1].tangent_vec = applied[3].tangent_vec
    /\ applied[2].tangent_vec # applied[1].tangent_vec
    /\ applied[1].value # applied[2].value
    /\ applied[1].value # ZeroField(Len(base_point))
    /\ applied[3].value = applied[1].value

\* the least area _triangle_areas can return: the square root of the floor
AreaFloor == RSqrt(HeronFloor)

DegenerateFace(f) == UnflooredRadicand(f) = Zero

\* C20: for every surface, degenerate faces included, _triangle_areas returns
\* a finite value of at least 1e-3 for every face (the square root of a
\* radicand of at least 1e-6), and vertex_areas returns a finite value for
\* every vertex, strictly positive for every vertex incident to a face: the
\* outcome of either call is an array of finite numbers, never NaN.
C20_HeronFloor ==
    /\ op = "_triangle_areas" =>
          \A f \in 1..Len(faces) :
                /\ IsFinite(result[f])
                /\ ~RLess(result[f], AreaFloor)
                /\ ~RLess(RMul(result[f], result[f]), HeronFloor)
    /\ op = "vertex_areas" =>
          \A v \in 1..Len(base_point) :
                /\ IsFinite(result[v])
                /\ ~RLess(result[v], Zero)
                /\ IncidentFaces(v - 1) # {} => RLess(Zero, result[v])

C20_Witness ==
    /\ op = "vertex_areas"
    /\ \E f \in 1..Len(faces) :
          /\ DegenerateFace(f)
          /\ base_point[faces[f][1] + 1] # base_point[faces[f][2] + 1]
    /\ \E f \in 1..Len(faces) : ~DegenerateFace(f)
    /\ \A v \in 1..Len(base_point) : RLess(Zero, result[v])

\* ------------------------------------- calls on one surface, more frames
\*
\* The solver called on a single surface (no batch), with n_steps up to
\* MaxFrames, so that the loop of _discrete_geodesic_ivp_single runs more
\* than once.

InitSingle ==
    /\ faces \in SolverFaces
    /\ weights \in SolverWeights
    /\ n_steps \in 1..MaxFrames
    /\ op = "none"
    /\ base_point = NoResult
    /\ tangent_vec = NoResult
    /\ tangent_vec_b = NoResult
    /\ result = NoResult
    /\ pc = "idle"
    /\ geod = <<>>
    /\ paths = <<>>
    /\ n_minimize = 0
    /\ applied = <<>>

\* entry of discrete_geodesic_ivp, exp or geodesic_ivp with two arrays of
\* shape [n_vertices, 3]
SingleSolverCall ==
    /\ op = "none"
    /\ \E name \in SolverOps,
          tv \in SolverTangents(MaxIndex(faces) + 1),
          bp \in SolverPoints(faces) :
        /\ op' = name
        /\ tangent_vec' = Single(tv)
        /\ base_point' = Single(bp)
        /\ pc' = "single"
        /\ UNCHANGED <<faces, weights, n_steps, tangent_vec_b, result, geod, paths,
                       n_minimize, applied>>

NextSingle ==
    \/ SingleSolverCall
    \/ StartSingle
    \/ StepForward
    \/ StepRaises
    \/ FinishSingle
    \/ SolverReturn

SpecSingle == InitSingle /\ [][NextSingle]_vars

\* ------------------------------------------ claims on the frames

\* frame is base + tangent / (n_steps - 1), stated by undoing the step where
\* the division is a division, and as the IEEE quotient by zero otherwise
IsEulerStep(frame, base, tangent) ==
    /\ Len(frame) = Len(base)
    /\ \A v \in 1..Len(base) : \A k \in 1..3 :
          IF n_steps > 1
          THEN RMul(Rat(n_steps - 1), RSub(frame[v][k], base[v][k])) = tangent[v][k]
          ELSE frame[v][k] = RAdd(base[v][k], RDiv(tangent[v][k], Zero))

\* C21: in every discretized geodesic frame 1 is
\* base_point + tangent_vec / (n_steps - 1), and it is there before the
\* minimizer is called for that geodesic.
C21_EulerFirstStep ==
    /\ (pc = "loop" /\ Len(geod) = 2) =>
          /\ geod[1] = ElementOf(base_point, Len(paths) + 1)
          /\ IsEulerStep(geod[2], ElementOf(base_point, Len(paths) + 1),
                         ElementOf(tangent_vec, Len(paths) + 1))
          /\ n_minimize = SolvedIn(paths)
    /\ SolverReturned("discrete_geodesic_ivp") =>
          \A i \in 1..Len(paths) :
              LET g == IF SingleCall THEN result ELSE result[i]
              IN IsEulerStep(g[2], ElementOf(base_point, i), ElementOf(tangent_vec, i))

C21_Witness ==
    /\ SolverReturned("discrete_geodesic_ivp")
    /\ SingleCall
    /\ n_steps = 3
    /\ tangent_vec.data # ZeroField(Len(base_point.data))
    /\ result[2] # result[1]
    /\ result[2] = PointPlus(base_point.data, ScaleField(Half, tangent_vec.data))

\* 2 * later - earlier, the constant-velocity extrapolation of two frames
Extrapolated(earlier, later) ==
    Arr([v \in 1..Len(later) |-> VSub(VScale(Rat(2), later[v]), earlier[v])])

\* frame k of g is what the minimizer returns for the window (k-2, k-1) of g
\* (frames counted from 1 here, from 0 in the source)
SlidFrom(g, k) ==
    \E sol \in Minimize(weights, faces, g[k - 2], g[k - 1],
                        Extrapolated(g[k - 2], g[k - 1])) :
        /\ ~sol.raised
        /\ g[k] = sol.x

\* C22: every frame from the third on is the minimizer's result for the
\* objective of the two frames before it, started from
\* 2 * frame[k-1] - frame[k-2]; frames are appended one at a time in index
\* order and a frame already there is never changed. The latest frame is
\* compared in every state of the loop, and all of them when the call returns.
C22_SlidingWindow ==
    /\ [](/\ (pc = "loop" /\ Len(geod) > 2) => SlidFrom(geod, Len(geod))
          /\ (SolverReturned("discrete_geodesic_ivp") /\ SingleCall) =>
                \A k \in 3..Len(result) : SlidFrom(result, k))
    /\ [][(pc = "loop" /\ pc' = "loop") =>
             /\ Len(geod') = Len(geod) + 1
             /\ SubSeq(geod', 1, Len(geod)) = geod
             /\ n_minimize' = n_minimize + 1]_vars

C22_Witness ==
    /\ SolverReturned("discrete_geodesic_ivp")
    /\ SingleCall
    /\ n_steps = 4
    /\ Len(result) = 4
    /\ n_minimize = 2
    /\ result[2] # result[1]
    /\ result[3] = Displaced(Extrapolated(result[1], result[2]))
    /\ result[4] = Extrapolated(result[2], result[3])
    /\ result[4] # Extrapolated(result[1], result[2])

\* the single-surface solve is over: its loop has ended
SingleSolveOver == pc \in {"return", "done"} /\ SingleCall

\* C23: the single-surface solve ends after exactly max(0, n_steps - 2)
\* minimizer calls, and n_steps frames have been produced by then.
C23_TerminatesWithNSteps ==
    SingleSolveOver =>
        /\ n_minimize = (IF n_steps > 2 THEN n_steps - 2 ELSE 0)
        /\ Len(paths) = 1
        /\ Len(paths[1]) = n_steps

\* ------------------------------------------ claims on the a2 term

\* some vertex of the base surface has vertex area 0
ZeroAreaVertex == \E v \in 1..Len(base_point) : VertexAreas(faces, base_point)[v] = Zero

\* C24: with a2 > 0 and a vertex of area 0 (an index that no face uses) the
\* a2 term divides by that area, and inner_product returns the non-finite
\* value: the division neither raises nor is replaced by a finite number. The
\* only failure left is gs.linalg.inv on a singular metric matrix.
C24_A2DividesByZeroArea ==
    (Called /\ weights.a2 > 0 /\ ZeroAreaVertex) =>
        IF result.raised
        THEN \E f \in 1..Len(faces) : IsSingular(SurfaceMetricMatrices(faces, base_point)[f])
        ELSE /\ ~IsFinite(result.terms.a2)
             /\ ~IsFinite(result.value)

C24_Witness ==
    /\ Called
    /\ weights = [a0 |-> 0, a1 |-> 0, b1 |-> 0, c1 |-> 0, d1 |-> 0, a2 |-> 1]
    /\ faces = IsolatedVertex
    /\ VertexAreas(faces, base_point)[3] = Zero
    /\ tangent_vec # ZeroField(Len(base_point))
    /\ tangent_vec_b # ZeroField(Len(base_point))
    /\ ~result.raised
    /\ result.value = NaN

\* ------------------------------------------ claims on is_tangent

\* C25: is_tangent(vector, base_point) is belongs(vector): the same truth
\* value, whatever base_point holds; its shape is base_point's batch shape
\* when base_point has more dimensions than vector, and vector's batch shape
\* otherwise.
C25_IsTangentIsBelongs ==
    op = "is_tangent" =>
        /\ ~result.raised
        /\ result.value = Belongs(faces, tangent_vec).value
        /\ result.shape =
              IF base_point # None /\ Ndim(base_point) > Ndim(tangent_vec)
              THEN BatchShape(base_point.shape)
              ELSE BatchShape(tangent_vec.shape)

\* ------------------------------------- claims on the metric matrices

\* the edge vectors of face f are collinear (one of them may be zero)
CollinearEdges(f) == Cross(EdgeVector(f, 2), EdgeVector(f, 3)) = V(0, 0, 0)

\* C26: for every surface and face, surface_metric_matrices is the Gram matrix
\* of the one-form [v1 - v0, v2 - v0]: symmetric, with non-negative diagonal
\* and determinant, the determinant being 0 exactly on degenerate faces.
C26_GramMatrix ==
    op = "surface_metric_matrices" =>
        /\ Len(result) = Len(faces)
        /\ \A f \in 1..Len(faces) :
              LET m == result[f]
              IN /\ \A i, j \in 1..2 :
                        m[i][j] = Dot(EdgeVector(f, i + 1), EdgeVector(f, j + 1))
                 /\ m[1][2] = m[2][1]
                 /\ ~RLess(m[1][1], Zero)
                 /\ ~RLess(m[2][2], Zero)
                 /\ ~RLess(Det2(m), Zero)
                 /\ (Det2(m) = Zero) <=> CollinearEdges(f)

C26_Witness ==
    /\ op = "surface_metric_matrices"
    /\ Len(faces) = 2
    /\ ~CollinearEdges(1)
    /\ result[1][1][2] # Zero
    /\ CollinearEdges(2)
    /\ EdgeVector(2, 2) # V(0, 0, 0)
    /\ EdgeVector(2, 3) # V(0, 0, 0)
    /\ Det2(result[2]) = Zero

\* ------------------------------------- claims on the cotangent weights

\* squared length of the edge of face f between its corners i and j (1..3)
SqEdge(f, i, j) ==
    LET d == VSub(base_point[faces[f][i] + 1], base_point[faces[f][j] + 1])
    IN Dot(d, d)

\* (the two other squared edge lengths minus the one opposite) / (2 * area)
CotWeight(others1, others2, opposite, area) ==
    RDiv(RSub(RAdd(others1, others2), opposite), RMul(Rat(2), area))

\* C27: the per-face area inside laplacian(point) is _triangle_areas(point),
\* degenerate faces included, and the three cotangent weights of a face are
\* (sum of the two other squared edge lengths - the opposite one) / (2 * area),
\* in the order 12, 02, 01. Stated of the operator as laplacian returns it.
C27_LaplacianAreas ==
    (op = "laplacian_operator" /\ applied = <<>>) =>
        /\ result.area = TriangleAreas(faces, base_point)
        /\ Len(result.cot_flatten) = 3 * Len(faces)
        /\ \A f \in 1..Len(faces) :
              LET area == TriangleAreas(faces, base_point)[f]
                  sq12 == SqEdge(f, 2, 3)
                  sq02 == SqEdge(f, 1, 3)
                  sq01 == SqEdge(f, 1, 2)
              IN /\ result.cot_flatten[3 * (f - 1) + 1] = CotWeight(sq02, sq01, sq12, area)
                 /\ result.cot_flatten[3 * (f - 1) + 2] = CotWeight(sq12, sq01, sq02, area)
                 /\ result.cot_flatten[3 * (f - 1) + 3] = CotWeight(sq12, sq02, sq01, area)

C27_Witness ==
    /\ op = "laplacian_operator"
    /\ applied = <<>>
    /\ Len(faces) = 2
    /\ ~DegenerateFace(1)
    /\ result.cot_flatten[1] # Zero
    /\ DegenerateFace(2)
    /\ result.area[2] = AreaFloor
    /\ result.cot_flatten[4] # Zero

\* --------------------------- the operator applied to fields and their sum
\*
\* A caller invokes the operator laplacian returned on two fields, and then
\* on their sum.

ConstantField(n, c) == Arr([v \in 1..n |-> c])

ConstantVectors == {V(1, 0, 0), V(1, 2, -1)}

\* the fields the caller picks from: the tangent fields and constant ones
LinearFields(n) == TangentVecs(n) \cup {ConstantField(n, c) : c \in ConstantVectors}

\* _laplacian(tangent_vec), for the first and the second field
InvokeOnField ==
    /\ op = "laplacian_operator"
    /\ Len(applied) < 2
    /\ \E tv \in LinearFields(Len(base_point)) :
          /\ tangent_vec' = tv
          /\ applied' = Append(applied, [tangent_vec |-> tv,
                                         value |-> LaplacianApply(result, tv)])
    /\ UNCHANGED <<faces, weights, n_steps, op, base_point, tangent_vec_b,
                   result, pc, geod, paths, n_minimize>>

\* _laplacian(tangent_vec), for the sum of the two fields
InvokeOnSum ==
    /\ op = "laplacian_operator"
    /\ Len(applied) = 2
    /\ LET tv == PointPlus(applied[1].tangent_vec, applied[2].tangent_vec)
       IN /\ tangent_vec' = tv
          /\ applied' = Append(applied, [tangent_vec |-> tv,
                                         value |-> LaplacianApply(result, tv)])
    /\ UNCHANGED <<faces, weights, n_steps, op, base_point, tangent_vec_b,
                   result, pc, geod, paths, n_minimize>>

NextLinear ==
    \/ LaplacianReturns
    \/ InvokeOnField
    \/ InvokeOnSum

SpecLinear == InitSurface /\ [][NextLinear]_vars

IsConstantField(field) == \A v \in 1..Len(field) : field[v] = field[1]

\* C28: the operator laplacian(base_point) returns is linear and annihilates
\* constants, for every base surface and triangulation: on a field with the
\* same 3-vector at every vertex it returns the zero field, and on u + w the
\* sum of what it returns on u and on w.
C28_LinearAnnihilatesConstants ==
    op = "laplacian_operator" =>
        /\ \A i \in 1..Len(applied) :
              IsConstantField(applied[i].tangent_vec)
                  => applied[i].value = ZeroField(Len(base_point))
        /\ Len(applied) = 3 =>
              /\ applied[3].tangent_vec =
                    PointPlus(applied[1].tangent_vec, applied[2].tangent_vec)
              /\ applied[3].value = PointPlus(applied[1].value, applied[2].value)

C28_Witness ==
    /\ op = "laplacian_operator"
    /\ Len(applied) = 3
    /\ Len(faces) = 2
    /\ IsConstantField(applied[1].tangent_vec)
    /\ applied[1].tangent_vec # ZeroField(Len(base_point))
    /\ applied[1].value = ZeroField(Len(base_point))
    /\ applied[2].value # ZeroField(Len(base_point))
    /\ applied[3].tangent_vec # applied[2].tangent_vec
    /\ applied[3].value = applied[2].value

\* ------------------------------------------ claims on batch sizes

\* C29: for batched input discrete_geodesic_ivp returns one geodesic per
\* batch element of base_point, also when tangent_vec and base_point have the
\* same number of dimensions and different batch sizes.
C29_OnePerBasePoint ==
    (SolverReturned("discrete_geodesic_ivp") /\ base_point.ndim > PointNdim) =>
        /\ Len(result) = Len(base_point.data)
        /\ \A i \in 1..Len(base_point.data) :
              i <= Len(result) /\ result[i][1] = base_point.data[i]

\* ------------------------------------------ claims on n_steps = 2

\* C30: with n_steps = 2 the solver calls the minimizer for no frame, so the
\* metric is never evaluated and the call cannot fail in it; the geodesic is
\* [base_point, base_point + tangent_vec] and exp is base_point + tangent_vec,
\* for every weight configuration (and for each element of a batch).
C30_TwoStepsNoMinimizer ==
    n_steps = 2 =>
        /\ n_minimize = 0
        /\ pc # "raised"
        /\ (pc = "done" /\ op \in {"discrete_geodesic_ivp", "exp"}) =>
              \A i \in 1..Len(paths) :
                  LET bp == ElementOf(base_point, i)
                      tv == ElementOf(tangent_vec, i)
                  IN IF op = "exp"
                     THEN (IF SingleCall THEN result ELSE result[i]) = PointPlus(bp, tv)
                     ELSE (IF SingleCall THEN result ELSE result[i])
                              = <<bp, PointPlus(bp, tv)>>

C30_Witness ==
    /\ SolverReturned("exp")
    /\ n_steps = 2
    /\ SingleCall
    /\ weights = DefaultWeights
    /\ InnerProductRaises(weights, faces, base_point.data)
    /\ tangent_vec.data # ZeroField(Len(base_point.data))
    /\ result = PointPlus(base_point.data, tangent_vec.data)
    /\ result # base_point.data
    /\ n_minimize = 0

====
